---------------------------- MODULE Spec2Model ----------------------------
(***************************************************************************)
(* Polling application: the relational store (polls, options, votes with   *)
(* their foreign keys, cascades, uniqueness constraint and row-level       *)
(* security policies) and the request handlers that run against it: the    *)
(* vote POST, the poll GET / PUT / DELETE and the poll-creation POST.      *)
(*                                                                         *)
(* Every handler is a sequence of store operations separated by awaits.    *)
(* One action models one store operation together with the local code      *)
(* that follows it up to the next store operation (or the response), so    *)
(* handlers of different requests interleave exactly at their awaits.      *)
(* Every store operation takes an outcome "fail" (store unreachable: the    *)
(* handler gets an error object instead of data); Failures lists the       *)
(* outcomes the specification draws from.                                  *)
(***************************************************************************)
EXTENDS Integers, Sequences, FiniteSets, TLC

(***************************************************************************)
(* Bounds of the model.                                                    *)
(***************************************************************************)
MaxPolls == 3
MaxOptions == 14
MaxVotes == 2
MaxGenerated == 2
MaxRequests == 2

\* two handlers can be in flight at the same time
Reqs == {1, 2}
PollIds == 1..MaxPolls
OptionIds == 1..MaxOptions
VoteIds == 1..MaxVotes

(***************************************************************************)
(* Inputs.                                                                 *)
(***************************************************************************)
\* auth.getUser() without a session; the users are "u1" and "u2"
NoUser == "anon"
\* the sessions that issue requests: one user and the anonymous caller
Sessions == {"u1", NoUser}

Visitors == {"v1"}
NoHeader == ""
Headers == Visitors \cup {NoHeader}
\* the clients that cast votes: an anonymous client with or without the
\* x-visitor-id header, and the poll page of a signed-in user, which sends
\* the header with the token of its localStorage
VoteCallers ==
    {[user |-> NoUser, header |-> h] : h \in Headers}
        \cup {[user |-> "u1", header |-> "v1"]}
GeneratedIds == <<"visitor_1", "visitor_2", "visitor_3">>

\* an optionId of the body that is not UUID-shaped
Malformed == 0

\* a text is abstracted to a tag (its content) and its number of characters
Text(tag, len) == [tag |-> tag, len |-> len]
NoText == Text("", 0)
Questions == {Text("q2", 200), Text("q0", 4)}
OptionLists == { <<Text("A", 1), Text("B", 100)>>,
                 <<Text("C", 7), Text("A", 1)>>,
                 <<Text("A", 1)>> }

\* the outcomes of a store operation that are explored: FALSE, the store
\* answers (TRUE: the store is unreachable)
Failures == {FALSE}

VARIABLES polls, options, votes, nextPoll, req, resp, issued, page

vars == <<polls, options, votes, nextPoll, req, resp, issued, page>>

(***************************************************************************)
(* Generic helpers.                                                        *)
(***************************************************************************)
Least(S) == CHOOSE i \in S : \A j \in S : i <= j

RECURSIVE LeastN(_, _)
\* the n least elements of S, ascending
LeastN(n, S) ==
    IF n = 0 THEN <<>> ELSE <<Least(S)>> \o LeastN(n - 1, S \ {Least(S)})

RECURSIVE OrderBy(_)
\* every order in which the rows S can come back sorted by ascending
\* position; rows with equal position come back in an unspecified order
OrderBy(S) ==
    IF S = {} THEN {<<>>}
    ELSE LET least == {x \in S : \A y \in S : x.position <= y.position}
         IN  UNION { { <<x>> \o t : t \in OrderBy(S \ {x}) } : x \in least }

(***************************************************************************)
(* The store: rows and constraints of the schema.                          *)
(***************************************************************************)
PollRow(id, user, question) == [id |-> id, user_id |-> user, question |-> question]
OptionRow(id, pollId, text, position) ==
    [id |-> id, poll_id |-> pollId, text |-> text, position |-> position]
VoteRow(id, pollId, optionId, visitorId) ==
    [id |-> id, poll_id |-> pollId, option_id |-> optionId, visitor_id |-> visitorId]

PollExists(pollId) == \E p \in polls : p.id = pollId
PollOf(pollId) == CHOOSE p \in polls : p.id = pollId
OptionsOf(pollId) == {o \in options : o.poll_id = pollId}
VotesOf(pollId) == {v \in votes : v.poll_id = pollId}

\* the votes table without its uniqueness constraint
UniqueViolationOff(pollId, visitorId) == FALSE

\* a constraint unique(poll_id): one vote per poll, whoever the visitor
UniqueViolationAnyVisitor(pollId, visitorId) ==
    \E v \in votes : v.poll_id = pollId

\* unique(poll_id, visitor_id)
UniqueViolation(pollId, visitorId) ==
    \E v \in votes : v.poll_id = pollId /\ v.visitor_id = visitorId

\* the votes table without its foreign keys
VoteFkViolationOff(pollId, optionId) == FALSE

\* votes.poll_id references polls(id), votes.option_id references options(id)
VoteFkViolation(pollId, optionId) ==
    \/ ~ PollExists(pollId)
    \/ ~ \E o \in options : o.id = optionId

\* the error with which the store answers an insert into votes
\* ("none": the row is inserted)
InsertVoteError(pollId, optionId, visitorId) ==
    IF VoteFkViolation(pollId, optionId) THEN "fk"
    ELSE IF UniqueViolation(pollId, visitorId) THEN "unique"
    ELSE "none"

\* votes.option_id without "on delete cascade"
VotesAfterOptionsDeleteNoCascade(pollId) == votes

\* the cascade reaching the votes of every poll
VotesAfterOptionsDeleteEveryPoll(pollId) == {}

\* votes.option_id with "on delete set null": the votes stay, without option
VotesAfterOptionsDeleteSetNull(pollId) ==
    { IF \E o \in OptionsOf(pollId) : v.option_id = o.id
      THEN [v EXCEPT !.option_id = 0] ELSE v : v \in votes }

\* delete from options where poll_id = pollId, with
\* votes.option_id references options(id) on delete cascade
VotesAfterOptionsDelete(pollId) ==
    {v \in votes : ~ \E o \in OptionsOf(pollId) : v.option_id = o.id}

\* delete from polls where id = pollId, with
\* options.poll_id and votes.poll_id references polls(id) on delete cascade
OptionsAfterPollDelete(pollId) == options \ OptionsOf(pollId)
\* votes.poll_id and votes.option_id without "on delete cascade"
VotesAfterPollDeleteNoCascade(pollId) == votes

VotesAfterPollDelete(pollId) ==
    {v \in votes : v.poll_id # pollId
                   /\ ~ \E o \in OptionsOf(pollId) : v.option_id = o.id}

\* row-level security, "owners manage polls" and "owners manage options":
\* the rows of a poll can be written by the session of its owner only
OwnsPoll(uid, pollId) == \E p \in polls : p.id = pollId /\ p.user_id = uid

(***************************************************************************)
(* Requests in flight and the latest response.                             *)
(***************************************************************************)
NoBody == [id |-> 0, options |-> <<>>, totalVotes |-> 0]

\* the results view of the poll page: the tally it displays (displayPoll),
\* the percentage it renders for each option, and the winner
NoPage == [options |-> <<>>, totalVotes |-> 0, percentages |-> <<>>,
           winner |-> 0, shown |-> "none"]

\* a handler slot: the request's inputs and the handler's local variables
Idle == [kind |-> "none", pc |-> "idle", pollId |-> 0, optionId |-> 0,
         visitorId |-> NoHeader, user |-> NoUser,
         question |-> NoText, options |-> <<>>,
         hadVotes |-> FALSE, oldOptions |-> {}, cookie |-> NoHeader]

\* the latest response: the handler that answered, status and error message
\* of the response, its tally, the store error the handler logged, and the
\* visitor_id cookie the response sets
NoResp == [kind |-> "none", status |-> 0, error |-> "", storeError |-> "none",
           body |-> NoBody, cookie |-> NoHeader]

\* an answer of a handler; Pass: no answer yet, the handler goes on
Answer(status, error) == [status |-> status, error |-> error]
Pass == Answer(0, "")

\* a request arrives: the first free handler slot takes it
Accept(r) ==
    /\ req[r].pc = "idle"
    /\ \A r2 \in Reqs : r2 < r => req[r2].pc # "idle"
    /\ issued < MaxRequests
    /\ issued' = issued + 1

\* the handler of slot r returns: its response becomes the latest response
\* and the slot is free again
Finish(r, kind, ans, storeError, body) ==
    /\ req' = [req EXCEPT ![r] = Idle]
    /\ resp' = [kind |-> kind, status |-> ans.status, error |-> ans.error,
                storeError |-> storeError, body |-> body, cookie |-> NoHeader]
    /\ UNCHANGED page

\* the vote handler of slot r returns its tally and sets the visitor_id
\* cookie: response.cookies.set('visitor_id', visitorId, ...)
FinishWithCookie(r, body) ==
    /\ req' = [req EXCEPT ![r] = Idle]
    /\ resp' = [kind |-> "vote", status |-> 200, error |-> "",
                storeError |-> "none", body |-> body,
                cookie |-> req[r].visitorId]
    /\ UNCHANGED page

\* the handler of slot r suspends at its next store operation
Continue(r, q) ==
    /\ req' = [req EXCEPT ![r] = q]
    /\ UNCHANGED <<resp, page>>

\* the store error of an operation that can fail only by the store being
\* unreachable
Unavailable(fail) == IF fail THEN "unavailable" ELSE "none"

(***************************************************************************)
(* Identifiers.  A poll gets the next identifier of a sequence, so that    *)
(* the identifier of a deleted poll is never given to another poll.  An    *)
(* option, a vote and a generated visitor token get a value that no row    *)
(* and no request in flight holds (gen_random_uuid(), Date.now() with      *)
(* Math.random()); identifiers are opaque, so the least such value stands  *)
(* for it.                                                                 *)
(***************************************************************************)
FreeOptionIds ==
    OptionIds \ ({o.id : o \in options} \cup {req[r].optionId : r \in Reqs}
                   \cup UNION {req[r].oldOptions : r \in Reqs})
FreeVoteIds == VoteIds \ {v.id : v \in votes}
FreeGenerated ==
    {n \in 1..MaxGenerated :
        /\ \A v \in votes : v.visitor_id # GeneratedIds[n]
        /\ \A r \in Reqs : req[r].visitorId # GeneratedIds[n]}

\* the two polls a seeded store starts with
SeedPolls == {PollRow(1, "u1", Text("q1", 5)), PollRow(2, "u2", Text("q1", 5))}
SeedOptions == {OptionRow(1, 1, Text("A", 1), 0), OptionRow(2, 1, Text("B", 100), 1),
                OptionRow(3, 2, Text("C", 7), 0), OptionRow(4, 2, Text("A", 1), 1)}

\* the vote a visitor cast earlier on the first of them
SeedVotes == {VoteRow(1, 1, 1, "v1")}

\* the store is empty, or holds two polls created earlier by two users,
\* without a vote or with the vote of one visitor
Init ==
    /\ \/ polls = {} /\ options = {} /\ votes = {} /\ nextPoll = 1
       \/ /\ polls = SeedPolls /\ options = SeedOptions /\ nextPoll = 3
          /\ votes \in {{}, SeedVotes}
    /\ req = [r \in Reqs |-> Idle]
    /\ resp = NoResp
    /\ issued = 0
    /\ page = NoPage

(***************************************************************************)
(* Request validation schemas (zod).                                       *)
(***************************************************************************)
\* z.object({ optionId: z.string().uuid() })
voteSchema(optionId) == optionId # Malformed

MinQuestion == 5
MaxQuestion == 200
MinOptionCount == 2
MaxOptionCount == 10
MinOptionText == 1
MaxOptionText == 100

\* the schema without the upper limit of the number of options
createPollSchemaAnyCount(question, opts) ==
    /\ question.len >= MinQuestion /\ question.len <= MaxQuestion
    /\ Len(opts) >= MinOptionCount
    /\ \A i \in DOMAIN opts :
          opts[i].len >= MinOptionText /\ opts[i].len <= MaxOptionText

\* createPollSchema: z.object({ question, options })
createPollSchema(question, opts) ==
    /\ question.len >= MinQuestion /\ question.len <= MaxQuestion
    /\ Len(opts) >= MinOptionCount /\ Len(opts) <= MaxOptionCount
    /\ \A i \in DOMAIN opts :
          opts[i].len >= MinOptionText /\ opts[i].len <= MaxOptionText

updatePollSchema(question, opts) ==
    /\ question.len >= MinQuestion /\ question.len <= MaxQuestion
    /\ Len(opts) >= MinOptionCount /\ Len(opts) <= MaxOptionCount
    /\ \A i \in DOMAIN opts :
          opts[i].len >= MinOptionText /\ opts[i].len <= MaxOptionText

\* the bodies of creation and edit requests at the limits of the schemas
BoundaryQuestions ==
    {Text("q0", MinQuestion - 1), Text("q1", MinQuestion),
     Text("q2", MaxQuestion), Text("q3", MaxQuestion + 1)}
BoundaryOptionLists ==
    { <<Text("A", MinOptionText), Text("B", MaxOptionText)>>,
      <<Text("A", 1)>>,
      <<Text("A", 1), Text("", MinOptionText - 1)>>,
      <<Text("A", 1), Text("D", MaxOptionText + 1)>>,
      [i \in 1..MaxOptionCount |-> Text("A", 1)],
      [i \in 1..(MaxOptionCount + 1) |-> Text("A", 1)] }

\* options.map((text, index) => ({ poll_id, text, position: index })), each
\* row getting its id from the store
optionsData(pollId, opts) ==
    { OptionRow(LeastN(Len(opts), FreeOptionIds)[i], pollId, opts[i], i - 1)
        : i \in DOMAIN opts }

\* the error with which the store answers an insert of option rows of a poll:
\* options.poll_id references polls(id); "owners manage options"
InsertOptionsError(uid, pollId, fail) ==
    IF fail THEN "unavailable"
    ELSE IF ~ PollExists(pollId) THEN "fk"
    ELSE IF ~ OwnsPoll(uid, pollId) THEN "rls"
    ELSE "none"

(***************************************************************************)
(* Vote handler: POST /api/polls/[id]/vote                                 *)
(***************************************************************************)
\* the visitor_id cookie a vote request carries: the cookie the latest
\* response set, or none
Cookie(withCookie) == IF withCookie THEN resp.cookie ELSE NoHeader

\* request.headers.get('x-visitor-id') || `visitor_${Date.now()}_${random}`
visitorIdOf(header) ==
    IF header # NoHeader THEN header ELSE GeneratedIds[Least(FreeGenerated)]

\* poll.options.find(option => option.id === optionId)
validOption(pollId, optionId) == \E o \in OptionsOf(pollId) : o.id = optionId

\* the handler without the check that the option belongs to the poll
POST_vote_firstAnyOption(pollId, optionId, fail) ==
    IF ~ voteSchema(optionId) THEN Answer(400, "Invalid request data")
    ELSE IF fail \/ ~ PollExists(pollId) THEN Answer(404, "Poll not found")
    ELSE Pass

\* the handler looking for the option before it looks at the poll
POST_vote_firstOptionFirst(pollId, optionId, fail) ==
    IF ~ voteSchema(optionId) THEN Answer(400, "Invalid request data")
    ELSE IF ~ validOption(pollId, optionId)
         THEN Answer(400, "Invalid option for this poll")
    ELSE IF fail \/ ~ PollExists(pollId) THEN Answer(404, "Poll not found")
    ELSE Pass

\* the handler reading the poll before it parses the body
POST_vote_firstPollFirst(pollId, optionId, fail) ==
    IF fail \/ ~ PollExists(pollId) THEN Answer(404, "Poll not found")
    ELSE IF ~ voteSchema(optionId) THEN Answer(400, "Invalid request data")
    ELSE IF ~ validOption(pollId, optionId)
         THEN Answer(400, "Invalid option for this poll")
    ELSE Pass

\* the answer of the handler before the duplicate check, Pass when it goes
\* on to that check
POST_vote_first(pollId, optionId, fail) ==
    IF ~ voteSchema(optionId) THEN Answer(400, "Invalid request data")
    ELSE IF fail \/ ~ PollExists(pollId) THEN Answer(404, "Poll not found")
    ELSE IF ~ validOption(pollId, optionId)
         THEN Answer(400, "Invalid option for this poll")
    ELSE Pass

\* lines 10-47: parse the body, resolve the visitor, read the poll with its
\* options, verify that the option belongs to the poll
POST_vote_begin(r, pollId, optionId, caller, withCookie, fail) ==
    LET ans == POST_vote_first(pollId, optionId, fail)
        gen == voteSchema(optionId) /\ caller.header = NoHeader
    IN  /\ Accept(r)
        \* the cookie is presented by clients that send no header
        /\ withCookie => resp.cookie # NoHeader /\ caller.header = NoHeader
        /\ gen => FreeGenerated # {}
        /\ IF ans # Pass
           THEN Finish(r, "vote", ans,
                       IF voteSchema(optionId) THEN Unavailable(fail) ELSE "none",
                       NoBody)
           ELSE Continue(r, [Idle EXCEPT !.kind = "vote", !.pc = "existingVote",
                                         !.pollId = pollId, !.optionId = optionId,
                                         !.user = caller.user,
                                         !.cookie = Cookie(withCookie),
                                         !.visitorId = visitorIdOf(caller.header)])
        /\ UNCHANGED <<polls, options, votes, nextPoll>>

\* the duplicate check never seeing a row
existingVoteUnseen(pollId, visitorId, fail) == FALSE

\* .from('votes').select('id').eq(poll_id).eq(visitor_id).single(): the row
\* when exactly one matches, no data otherwise; the error is not looked at
existingVote(pollId, visitorId, fail) ==
    /\ ~ fail
    /\ Cardinality({v \in votes : v.poll_id = pollId /\ v.visitor_id = visitorId}) = 1

\* lines 49-62: has this visitor already voted
POST_vote_existingVote(r, fail) ==
    /\ req[r].kind = "vote" /\ req[r].pc = "existingVote"
    /\ IF existingVote(req[r].pollId, req[r].visitorId, fail)
       THEN Finish(r, "vote", Answer(409, "You have already voted on this poll"),
                   "none", NoBody)
       ELSE Continue(r, [req[r] EXCEPT !.pc = "insert"])
    /\ UNCHANGED <<polls, options, votes, nextPoll, issued>>

\* the insert dropping the visitor identifier
insertedVoteNoVisitor(r) ==
    VoteRow(Least(FreeVoteIds), req[r].pollId, req[r].optionId, NoHeader)

\* the row of .from('votes').insert({ poll_id, option_id, visitor_id })
insertedVote(r) ==
    VoteRow(Least(FreeVoteIds), req[r].pollId, req[r].optionId, req[r].visitorId)

\* lines 64-79: cast the vote
POST_vote_insert(r, fail) ==
    LET voteError == IF fail THEN "unavailable"
                     ELSE InsertVoteError(req[r].pollId, req[r].optionId,
                                          req[r].visitorId)
    IN  /\ req[r].kind = "vote" /\ req[r].pc = "insert"
        /\ IF voteError # "none"
           THEN /\ Finish(r, "vote", Answer(500, "Failed to cast vote"),
                          voteError, NoBody)
                /\ UNCHANGED votes
           ELSE /\ FreeVoteIds # {}
                /\ votes' = votes \cup {insertedVote(r)}
                /\ Continue(r, [req[r] EXCEPT !.pc = "results"])
        /\ UNCHANGED <<polls, options, nextPoll, issued>>

\* the embedded resource votes:votes(count) of an option row: the store
\* answers an aggregate with an array of one object that holds the count
votesCountEmbed(option) ==
    << [count |-> Cardinality({v \in votes : v.option_id = option.id})] >>

\* results.map(option => ({ id, text, position, votes: option.votes.length }))
optionsWithCounts(results) ==
    [i \in DOMAIN results |->
        [id |-> results[i].id, text |-> results[i].text,
         position |-> results[i].position,
         votes |-> Len(votesCountEmbed(results[i]))]]

RECURSIVE totalVotes(_)
\* optionsWithCounts.reduce((sum, option) => sum + option.votes, 0)
totalVotes(opts) ==
    IF opts = <<>> THEN 0 ELSE Head(opts).votes + totalVotes(Tail(opts))

\* the tallies the handler can answer for a poll
POST_vote_tally(pollId) ==
    { [id |-> pollId,
       options |-> optionsWithCounts(results),
       totalVotes |-> totalVotes(optionsWithCounts(results))]
        : results \in OrderBy(OptionsOf(pollId)) }

\* the handler taking its vote back when the re-read fails
POST_vote_resultsUndoing(r, fail) ==
    /\ req[r].kind = "vote" /\ req[r].pc = "results"
    /\ IF fail
       THEN /\ Finish(r, "vote", Answer(500, "Vote cast but failed to fetch results"),
                      "unavailable", NoBody)
            /\ votes' = {v \in votes : ~ ( /\ v.poll_id = req[r].pollId
                                           /\ v.visitor_id = req[r].visitorId )}
       ELSE /\ \E body \in POST_vote_tally(req[r].pollId) : FinishWithCookie(r, body)
            /\ UNCHANGED votes
    /\ UNCHANGED <<polls, options, nextPoll, issued>>

\* lines 81-129: re-read the options with their votes and answer the tally
POST_vote_results(r, fail) ==
    /\ req[r].kind = "vote" /\ req[r].pc = "results"
    /\ IF fail
       THEN Finish(r, "vote", Answer(500, "Vote cast but failed to fetch results"),
                   "unavailable", NoBody)
       ELSE \E body \in POST_vote_tally(req[r].pollId) : FinishWithCookie(r, body)
    /\ UNCHANGED <<polls, options, votes, nextPoll, issued>>

(***************************************************************************)
(* Poll read: GET /api/polls/[id]                                          *)
(***************************************************************************)
\* poll.options.sort(by position).map(option => ({ ...option, voteCount }))
optionsWithVotes(pollId, sorted) ==
    [i \in DOMAIN sorted |->
        [id |-> sorted[i].id, text |-> sorted[i].text,
         position |-> sorted[i].position,
         voteCount |-> Cardinality({v \in VotesOf(pollId) :
                                      v.option_id = sorted[i].id})]]

\* the bodies the read can answer for an existing poll
pollWithStats(pollId) ==
    { [id |-> pollId,
       options |-> optionsWithVotes(pollId, sorted),
       totalVotes |-> Cardinality(VotesOf(pollId))]
        : sorted \in OrderBy(OptionsOf(pollId)) }

\* the polls a caller reads under the owners' policy alone
ReadablePollsOwnersOnly(user) == {p \in polls : p.user_id = user}

\* the polls a caller reads: "anyone read polls" for select using (true)
ReadablePolls(user) == {p \in polls : TRUE}

GET_first(pollId, user, fail) ==
    IF fail \/ ~ \E p \in ReadablePolls(user) : p.id = pollId
    THEN Answer(404, "Poll not found")
    ELSE Answer(200, "")

\* lines 10-51; the handler does not look at the caller's session
GET(r, pollId, user, fail) ==
    /\ Accept(r)
    /\ IF GET_first(pollId, user, fail).status = 404
       THEN Finish(r, "get", GET_first(pollId, user, fail), Unavailable(fail),
                   NoBody)
       ELSE \E body \in pollWithStats(pollId) :
              Finish(r, "get", GET_first(pollId, user, fail), "none", body)
    /\ UNCHANGED <<polls, options, votes, nextPoll>>

(***************************************************************************)
(* Poll edit: PUT /api/polls/[id]                                          *)
(***************************************************************************)
\* the checks without the comparison of the caller with the owner
ownerCheckAnyUser(pollId, user, fail) ==
    IF user = NoUser THEN Answer(401, "Unauthorized")
    ELSE IF fail \/ ~ PollExists(pollId) THEN Answer(404, "Poll not found")
    ELSE Pass

\* the answer of the authentication and ownership checks, Pass when they pass
ownerCheck(pollId, user, fail) ==
    IF user = NoUser THEN Answer(401, "Unauthorized")
    ELSE IF fail \/ ~ PollExists(pollId) THEN Answer(404, "Poll not found")
    ELSE IF PollOf(pollId).user_id # user THEN Answer(403, "Forbidden")
    ELSE Pass

\* the edit handler parsing the body before its other checks
PUT_firstBodyFirst(pollId, user, question, opts, fail) ==
    IF ~ updatePollSchema(question, opts) THEN Answer(400, "Validation failed")
    ELSE ownerCheck(pollId, user, fail)

\* the answer of the edit handler before its writes, Pass when it goes on
PUT_first(pollId, user, question, opts, fail) ==
    IF ownerCheck(pollId, user, fail) # Pass THEN ownerCheck(pollId, user, fail)
    ELSE IF ~ updatePollSchema(question, opts) THEN Answer(400, "Validation failed")
    ELSE Pass

\* lines 54-80: authenticate, read the poll, check the owner, parse the body
PUT_begin(r, pollId, user, question, opts, fail) ==
    LET ans == PUT_first(pollId, user, question, opts, fail)
    IN  /\ Accept(r)
        /\ IF ans # Pass
           THEN Finish(r, "put", ans,
                       IF user # NoUser THEN Unavailable(fail) ELSE "none", NoBody)
           ELSE Continue(r, [Idle EXCEPT !.kind = "put", !.pc = "updateQuestion",
                                         !.pollId = pollId, !.user = user,
                                         !.question = question, !.options = opts])
        /\ UNCHANGED <<polls, options, votes, nextPoll>>

\* lines 82-91: .from('polls').update({ question }).eq('id', id)
PUT_updateQuestion(r, fail) ==
    /\ req[r].kind = "put" /\ req[r].pc = "updateQuestion"
    /\ IF fail
       THEN /\ Finish(r, "put", Answer(500, "Failed to update poll"),
                      "unavailable", NoBody)
            /\ UNCHANGED polls
       ELSE /\ polls' = { IF p.id = req[r].pollId /\ p.user_id = req[r].user
                          THEN [p EXCEPT !.question = req[r].question] ELSE p
                          : p \in polls }
            /\ Continue(r, [req[r] EXCEPT !.pc = "deleteOptions"])
    /\ UNCHANGED <<options, votes, nextPoll, issued>>

\* lines 93-102: .from('options').delete().eq('poll_id', id)
PUT_deleteOptions(r, fail) ==
    /\ req[r].kind = "put" /\ req[r].pc = "deleteOptions"
    /\ IF fail
       THEN /\ Finish(r, "put", Answer(500, "Failed to update poll options"),
                      "unavailable", NoBody)
            /\ UNCHANGED <<options, votes>>
       ELSE /\ IF OwnsPoll(req[r].user, req[r].pollId)
               THEN /\ options' = options \ OptionsOf(req[r].pollId)
                    /\ votes' = VotesAfterOptionsDelete(req[r].pollId)
               ELSE UNCHANGED <<options, votes>>
            /\ Continue(r, [req[r] EXCEPT
                              !.pc = "insertOptions",
                              !.hadVotes = VotesOf(req[r].pollId) # {},
                              !.oldOptions = {o.id : o \in OptionsOf(req[r].pollId)}])
    /\ UNCHANGED <<polls, nextPoll, issued>>

\* the insert step not looking at the error of the insert
PUT_insertOptionsIgnoringError(r, fail) ==
    /\ req[r].kind = "put" /\ req[r].pc = "insertOptions"
    /\ IF InsertOptionsError(req[r].user, req[r].pollId, fail) # "none"
       THEN UNCHANGED options
       ELSE /\ Cardinality(FreeOptionIds) >= Len(req[r].options)
            /\ options' = options \cup optionsData(req[r].pollId, req[r].options)
    /\ Finish(r, "put", Answer(200, ""), "none", NoBody)
    /\ UNCHANGED <<polls, votes, nextPoll, issued>>

\* lines 104-120: insert the new option rows
PUT_insertOptions(r, fail) ==
    LET optionsError == InsertOptionsError(req[r].user, req[r].pollId, fail)
    IN  /\ req[r].kind = "put" /\ req[r].pc = "insertOptions"
        /\ IF optionsError # "none"
           THEN /\ Finish(r, "put", Answer(500, "Failed to create poll options"),
                          optionsError, NoBody)
                /\ UNCHANGED options
           ELSE /\ Cardinality(FreeOptionIds) >= Len(req[r].options)
                /\ options' = options \cup optionsData(req[r].pollId, req[r].options)
                /\ Finish(r, "put", Answer(200, ""), "none", NoBody)
        /\ UNCHANGED <<polls, votes, nextPoll, issued>>

(***************************************************************************)
(* Poll deletion: DELETE /api/polls/[id]                                   *)
(***************************************************************************)
\* lines 136-159: authenticate, read the poll, check the owner
DELETE_begin(r, pollId, user, fail) ==
    LET ans == ownerCheck(pollId, user, fail)
    IN  /\ Accept(r)
        /\ IF ans # Pass
           THEN Finish(r, "delete", ans,
                       IF user # NoUser THEN Unavailable(fail) ELSE "none", NoBody)
           ELSE Continue(r, [Idle EXCEPT !.kind = "delete", !.pc = "deletePoll",
                                         !.pollId = pollId, !.user = user])
        /\ UNCHANGED <<polls, options, votes, nextPoll>>

\* lines 161-172: .from('polls').delete().eq('id', id)
DELETE_deletePoll(r, fail) ==
    /\ req[r].kind = "delete" /\ req[r].pc = "deletePoll"
    /\ IF fail
       THEN /\ Finish(r, "delete", Answer(500, "Failed to delete poll"),
                      "unavailable", NoBody)
            /\ UNCHANGED <<polls, options, votes>>
       ELSE /\ IF OwnsPoll(req[r].user, req[r].pollId)
               THEN /\ polls' = {p \in polls : p.id # req[r].pollId}
                    /\ options' = OptionsAfterPollDelete(req[r].pollId)
                    /\ votes' = VotesAfterPollDelete(req[r].pollId)
               ELSE UNCHANGED <<polls, options, votes>>
            /\ Finish(r, "delete", Answer(200, ""), "none", NoBody)
    /\ UNCHANGED <<nextPoll, issued>>

(***************************************************************************)
(* Poll creation: POST /api/polls                                          *)
(***************************************************************************)
POST_polls_first(user, question, opts, fail) ==
    IF user = NoUser THEN Answer(401, "Unauthorized")
    ELSE IF ~ createPollSchema(question, opts) THEN Answer(400, "Validation failed")
    ELSE IF fail THEN Answer(500, "Failed to create poll")
    ELSE Pass

\* lines 289-315: authenticate, parse the body, insert the poll row
POST_polls_begin(r, user, question, opts, fail) ==
    LET ans == POST_polls_first(user, question, opts, fail)
    IN  /\ Accept(r)
        /\ IF ans # Pass
           THEN /\ Finish(r, "create", ans,
                          IF ans.status = 500 THEN "unavailable" ELSE "none", NoBody)
                /\ UNCHANGED <<polls, nextPoll>>
           ELSE /\ nextPoll <= MaxPolls
                /\ polls' = polls \cup {PollRow(nextPoll, user, question)}
                /\ nextPoll' = nextPoll + 1
                /\ Continue(r, [Idle EXCEPT !.kind = "create", !.pc = "insertOptions",
                                            !.pollId = nextPoll, !.user = user,
                                            !.question = question, !.options = opts])
        /\ UNCHANGED <<options, votes>>

\* lines 317-335: insert the option rows
POST_polls_insertOptions(r, fail) ==
    LET optionsError == InsertOptionsError(req[r].user, req[r].pollId, fail)
    IN  /\ req[r].kind = "create" /\ req[r].pc = "insertOptions"
        /\ IF optionsError # "none"
           THEN /\ Continue(r, [req[r] EXCEPT !.pc = "cleanup"])
                /\ UNCHANGED options
           ELSE /\ Cardinality(FreeOptionIds) >= Len(req[r].options)
                /\ options' = options \cup optionsData(req[r].pollId, req[r].options)
                /\ Finish(r, "create", Answer(201, ""), "none", NoBody)
        /\ UNCHANGED <<polls, votes, nextPoll, issued>>

\* the handler answering 500 without deleting the poll row
POST_polls_cleanupSkipped(r, fail) ==
    /\ req[r].kind = "create" /\ req[r].pc = "cleanup"
    /\ Finish(r, "create", Answer(500, "Failed to create poll options"),
              "failed", NoBody)
    /\ UNCHANGED <<polls, options, votes, nextPoll, issued>>

\* lines 328-333: delete the poll row again, answer 500 whatever the outcome
POST_polls_cleanup(r, fail) ==
    /\ req[r].kind = "create" /\ req[r].pc = "cleanup"
    /\ IF ~ fail /\ OwnsPoll(req[r].user, req[r].pollId)
       THEN /\ polls' = {p \in polls : p.id # req[r].pollId}
            /\ options' = OptionsAfterPollDelete(req[r].pollId)
            /\ votes' = VotesAfterPollDelete(req[r].pollId)
       ELSE UNCHANGED <<polls, options, votes>>
    /\ Finish(r, "create", Answer(500, "Failed to create poll options"),
              "failed", NoBody)
    /\ UNCHANGED <<nextPoll, issued>>

(***************************************************************************)
(* Numbers of the poll page.  A JavaScript number is an IEEE 754 double: a *)
(* significand of 53 bits, the first of them 1, and an exponent, the       *)
(* weight of the first bit being 2^exp.  Division and multiplication round *)
(* their exact result to the nearest double, ties to the even significand. *)
(* The significand is kept as a sequence of digits, most significant       *)
(* first: the leading 1, then Limbs digits of LimbBits bits each.          *)
(***************************************************************************)
LimbBits == 13
Limbs == 4
Base == 2^LimbBits

Zero == [zero |-> TRUE, digits |-> <<>>, exp |-> 0]
Double(digits, exp) == [zero |-> FALSE, digits |-> digits, exp |-> exp]

RECURSIVE Increment(_)
\* the digits plus one (a carry out of the first digit is dropped)
Increment(digits) ==
    IF digits = <<>> THEN <<>>
    ELSE IF digits[Len(digits)] < Base - 1
         THEN SubSeq(digits, 1, Len(digits) - 1) \o <<digits[Len(digits)] + 1>>
    ELSE Increment(SubSeq(digits, 1, Len(digits) - 1)) \o <<0>>

\* the double of the given significand and exponent, rounded up if up
Rounded(digits, exp, up) ==
    IF ~ up THEN Double(digits, exp)
    ELSE IF \A i \in 2..Len(digits) : digits[i] = Base - 1
         THEN Double(<<1>> \o [i \in 1..Limbs |-> 0], exp + 1)
    ELSE Double(Increment(digits), exp)

RECURSIVE LongDiv(_, _, _)
\* the digits of the quotient of (r, digits) by d, for r < d, followed by
\* the remainder
LongDiv(digits, d, r) ==
    IF digits = <<>> THEN <<r>>
    ELSE <<(r * Base + Head(digits)) \div d>>
            \o LongDiv(Tail(digits), d, (r * Base + Head(digits)) % d)

\* rounding to nearest, ties to even, of a quotient by d with its remainder
RoundedQuotient(q, d, exp) ==
    Rounded(SubSeq(q, 1, Limbs + 1), exp,
            \/ 2 * q[Limbs + 2] > d
            \/ 2 * q[Limbs + 2] = d /\ q[Limbs + 1] % 2 = 1)

RECURSIVE ShiftsUp(_, _)
\* the least k with v * 2^k >= t
ShiftsUp(v, t) == IF v >= t THEN 0 ELSE 1 + ShiftsUp(2 * v, t)

RECURSIVE ShiftsDown(_, _)
\* the greatest j with t * 2^j <= v (0 if there is none)
ShiftsDown(v, t) == IF v < 2 * t THEN 0 ELSE 1 + ShiftsDown(v, 2 * t)

\* v / t for integers v >= 0, t > 0
Divide(v, t) ==
    IF v = 0 THEN Zero
    ELSE LET k == ShiftsUp(v, t)
             j == ShiftsDown(v, t)
             n == v * 2^k
             d == t * 2^j
         IN  RoundedQuotient(LongDiv(<<n>> \o [i \in 1..Limbs |-> 0], d, 0),
                             d, j - k)

RECURSIVE MulDigits(_, _, _)
\* the digits of (digits * k + c); the first digit takes the last carry
MulDigits(digits, k, c) ==
    IF Len(digits) = 1 THEN <<digits[1] * k + c>>
    ELSE MulDigits(SubSeq(digits, 1, Len(digits) - 1), k,
                   (digits[Len(digits)] * k + c) \div Base)
            \o <<(digits[Len(digits)] * k + c) % Base>>

\* x * k for a double x and an integer k with 1 <= k < Base
Times(x, k) ==
    IF x.zero THEN Zero
    ELSE LET product == MulDigits(x.digits, k, 0)
             shift == ShiftsDown(product[1], 1)
         IN  RoundedQuotient(LongDiv(product, 2^shift, 0), 2^shift,
                             x.exp + shift)

\* Math.round(x) for a double 0 <= x < Base: the nearest integer, a half
\* going up
MathRound(x) ==
    IF x.zero \/ x.exp < -1 THEN 0
    ELSE IF x.exp = -1 THEN 1
    ELSE LET top == x.digits[1] * Base + x.digits[2]
         IN  top \div 2^(LimbBits - x.exp)
               + ((top \div 2^(LimbBits - 1 - x.exp)) % 2)

(***************************************************************************)
(* Results view of the poll page, and the winner of a tally.               *)
(***************************************************************************)
Hundred == 100

\* the computation without the guard for an empty tally: 0 / 0 is NaN,
\* written -1 here
getOptionPercentageUnguarded(votesOfOption, total) ==
    IF total = 0 THEN -1
    ELSE MathRound(Times(Divide(votesOfOption, total), Hundred))

\* if (total === 0) return 0; return Math.round((votes / total) * 100)
getOptionPercentage(votesOfOption, total) ==
    IF total = 0 THEN 0
    ELSE MathRound(Times(Divide(votesOfOption, total), Hundred))

RECURSIVE reduce(_, _)
\* rest.reduce((prev, current) => prev.votes > current.votes ? prev : current,
\* prev)
reduce(prev, rest) ==
    IF rest = <<>> THEN prev
    ELSE reduce(IF prev.votes > Head(rest).votes THEN prev ELSE Head(rest),
                Tail(rest))

\* options.reduce(...) without initial value, on a non-empty list
winner(opts) == reduce(Head(opts), Tail(opts))

\* the greatest number of votes of a tally drawn for the results view
MaxCount == 23

\* the tallies the results view is given: one, two or three options
Tallies ==
    {<<a>> : a \in 0..MaxCount}
        \cup {<<a, b>> : a \in 0..MaxCount, b \in 0..MaxCount}
        \cup {<<10, 20, 5>>, <<0, 0, 0>>, <<2, 7, 7>>}

\* the results of a poll with the given numbers of votes, as the vote
\* response carries them
TallyOf(t) ==
    LET opts == [i \in DOMAIN t |-> [id |-> i, votes |-> t[i]]]
    IN  [NoPage EXCEPT !.options = opts, !.totalVotes = totalVotes(opts),
                       !.shown = "loaded"]

InitResults ==
    /\ polls = {} /\ options = {} /\ votes = {} /\ nextPoll = 1
    /\ req = [r \in Reqs |-> Idle]
    /\ resp = NoResp
    /\ issued = 0
    /\ page \in {TallyOf(t) : t \in Tallies}

\* displayPoll.options.map(option => getOptionPercentage(option.votes,
\* displayPoll.totalVotes))
ShowResults ==
    /\ page.shown = "loaded"
    /\ page' = [page EXCEPT
                  !.percentages =
                      [i \in DOMAIN page.options |->
                          getOptionPercentage(page.options[i].votes, page.totalVotes)],
                  !.shown = "results"]
    /\ UNCHANGED <<polls, options, votes, nextPoll, req, resp, issued>>

\* const winner = results.poll.options.reduce(...)
PickWinner ==
    /\ page.shown = "results"
    /\ page' = [page EXCEPT !.winner = winner(page.options).id,
                            !.shown = "winner"]
    /\ UNCHANGED <<polls, options, votes, nextPoll, req, resp, issued>>

NextResults == ShowResults \/ PickWinner

SpecResults == InitResults /\ [][NextResults]_vars

(***************************************************************************)
(* Specification.                                                          *)
(***************************************************************************)
Next ==
    \/ \E r \in Reqs, pollId \in PollIds, optionId \in OptionIds \cup {Malformed},
          caller \in VoteCallers, withCookie \in BOOLEAN, fail \in Failures :
            POST_vote_begin(r, pollId, optionId, caller, withCookie, fail)
    \/ \E r \in Reqs, fail \in Failures : POST_vote_existingVote(r, fail)
    \/ \E r \in Reqs, fail \in Failures : POST_vote_insert(r, fail)
    \/ \E r \in Reqs, fail \in Failures : POST_vote_results(r, fail)
    \/ \E r \in Reqs, pollId \in PollIds, user \in Sessions, fail \in Failures :
            GET(r, pollId, user, fail)
    \/ \E r \in Reqs, pollId \in PollIds, user \in Sessions, question \in Questions,
          opts \in OptionLists, fail \in Failures :
            PUT_begin(r, pollId, user, question, opts, fail)
    \/ \E r \in Reqs, fail \in Failures : PUT_updateQuestion(r, fail)
    \/ \E r \in Reqs, fail \in Failures : PUT_deleteOptions(r, fail)
    \/ \E r \in Reqs, fail \in Failures : PUT_insertOptions(r, fail)
    \/ \E r \in Reqs, pollId \in PollIds, user \in Sessions, fail \in Failures :
            DELETE_begin(r, pollId, user, fail)
    \/ \E r \in Reqs, fail \in Failures : DELETE_deletePoll(r, fail)
    \/ \E r \in Reqs, user \in Sessions, question \in Questions,
          opts \in OptionLists, fail \in Failures :
            POST_polls_begin(r, user, question, opts, fail)
    \/ \E r \in Reqs, fail \in Failures : POST_polls_insertOptions(r, fail)
    \/ \E r \in Reqs, fail \in Failures : POST_polls_cleanup(r, fail)

Spec == Init /\ [][Next]_vars

\* the handlers that write polls and options, given the bodies at the limits
\* of the schemas
NextBodies ==
    \/ \E r \in Reqs, pollId \in PollIds, user \in Sessions,
          question \in BoundaryQuestions, opts \in BoundaryOptionLists,
          fail \in Failures :
            PUT_begin(r, pollId, user, question, opts, fail)
    \/ \E r \in Reqs, fail \in Failures : PUT_updateQuestion(r, fail)
    \/ \E r \in Reqs, fail \in Failures : PUT_deleteOptions(r, fail)
    \/ \E r \in Reqs, fail \in Failures : PUT_insertOptions(r, fail)
    \/ \E r \in Reqs, pollId \in PollIds, user \in Sessions, fail \in Failures :
            DELETE_begin(r, pollId, user, fail)
    \/ \E r \in Reqs, fail \in Failures : DELETE_deletePoll(r, fail)
    \/ \E r \in Reqs, user \in Sessions, question \in BoundaryQuestions,
          opts \in BoundaryOptionLists, fail \in Failures :
            POST_polls_begin(r, user, question, opts, fail)
    \/ \E r \in Reqs, fail \in Failures : POST_polls_insertOptions(r, fail)
    \/ \E r \in Reqs, fail \in Failures : POST_polls_cleanup(r, fail)

SpecBodies == Init /\ [][NextBodies]_vars

\* the handler slot of requests that are handled one after another
OneAtATime == {1}

\* every handler, each store operation answering or failing (store
\* unreachable), the requests handled one after another
NextFailing ==
    \/ \E r \in OneAtATime, pollId \in PollIds, optionId \in OptionIds \cup {Malformed},
          caller \in VoteCallers, withCookie \in BOOLEAN, fail \in BOOLEAN :
            POST_vote_begin(r, pollId, optionId, caller, withCookie, fail)
    \/ \E r \in OneAtATime, fail \in BOOLEAN : POST_vote_existingVote(r, fail)
    \/ \E r \in OneAtATime, fail \in BOOLEAN : POST_vote_insert(r, fail)
    \/ \E r \in OneAtATime, fail \in BOOLEAN : POST_vote_results(r, fail)
    \/ \E r \in OneAtATime, pollId \in PollIds, user \in Sessions, fail \in BOOLEAN :
            GET(r, pollId, user, fail)
    \/ \E r \in OneAtATime, pollId \in PollIds, user \in Sessions, question \in Questions,
          opts \in OptionLists, fail \in BOOLEAN :
            PUT_begin(r, pollId, user, question, opts, fail)
    \/ \E r \in OneAtATime, fail \in BOOLEAN : PUT_updateQuestion(r, fail)
    \/ \E r \in OneAtATime, fail \in BOOLEAN : PUT_deleteOptions(r, fail)
    \/ \E r \in OneAtATime, fail \in BOOLEAN : PUT_insertOptions(r, fail)
    \/ \E r \in OneAtATime, pollId \in PollIds, user \in Sessions, fail \in BOOLEAN :
            DELETE_begin(r, pollId, user, fail)
    \/ \E r \in OneAtATime, fail \in BOOLEAN : DELETE_deletePoll(r, fail)
    \/ \E r \in OneAtATime, user \in Sessions, question \in Questions,
          opts \in OptionLists, fail \in BOOLEAN :
            POST_polls_begin(r, user, question, opts, fail)
    \/ \E r \in OneAtATime, fail \in BOOLEAN : POST_polls_insertOptions(r, fail)
    \/ \E r \in OneAtATime, fail \in BOOLEAN : POST_polls_cleanup(r, fail)

SpecFailing == Init /\ [][NextFailing]_vars

\* every handler, on the store in which a visitor has voted on the first
\* poll
InitVoted == Init /\ votes = SeedVotes

SpecVoted == InitVoted /\ [][Next]_vars

(***************************************************************************)
(* Properties.                                                             *)
(***************************************************************************)
\* the handler of slot r takes a step
Steps(r) == req'[r] # req[r]

\* the handler of slot r, at program point pc of a request of the given
\* kind, takes its step and answers
Answers(r, kind, pc) ==
    /\ req[r].kind = kind /\ req[r].pc = pc
    /\ req'[r] = Idle

\* a vote request is answered by the step that accepts it
VoteAnsweredAtOnce ==
    /\ issued' = issued + 1
    /\ req' = req
    /\ resp'.kind = "vote"

\* C1: in every reachable state the votes table holds at most one row for
\* each (poll, visitor identifier) pair.
OneVotePerVisitor ==
    \A v \in votes, w \in votes :
        v.poll_id = w.poll_id /\ v.visitor_id = w.visitor_id => v = w

\* a second submission of a visitor reached the insert and the uniqueness
\* constraint rejected it
WitnessConstraintRejects ==
    /\ resp.kind = "vote" /\ resp.storeError = "unique"
    /\ votes # {}

\* C2: of two concurrent vote requests of one visitor on one poll that both
\* passed the duplicate check, the one whose insert the uniqueness
\* constraint rejects is answered with the conflict error 409.
RaceLoserGetsConflict ==
    resp.kind = "vote" /\ resp.storeError = "unique" => resp.status = 409

\* C3: a vote request whose duplicate check runs while a vote row exists for
\* its (poll, visitor) pair is answered 409 by that step, and the step
\* leaves the votes table as it was.
DuplicateVoteRejected ==
    [][\A r \in Reqs :
          ( /\ req[r].kind = "vote" /\ req[r].pc = "existingVote"
            /\ Steps(r)
            /\ UniqueViolation(req[r].pollId, req[r].visitorId) )
          => /\ req'[r] = Idle
             /\ resp'.kind = "vote" /\ resp'.status = 409
             /\ votes' = votes]_vars

\* a duplicate was answered 409 and the vote it duplicates is in the table
WitnessDuplicateRejected ==
    /\ resp.kind = "vote" /\ resp.status = 409
    /\ votes # {}

\* C4: for an existing poll and an optionId that is not one of that poll's
\* options (malformed, unknown, or an option of another poll) the vote
\* handler answers 400 before it looks at the votes, whatever the votes
\* table holds; and a vote request answered at once records no vote.
ForeignOptionRejected ==
    /\ [](\A pollId \in PollIds, optionId \in OptionIds \cup {Malformed} :
            ( /\ PollExists(pollId)
              /\ ~ \E o \in options : o.id = optionId /\ o.poll_id = pollId )
            => POST_vote_first(pollId, optionId, FALSE).status = 400)
    /\ [][VoteAnsweredAtOnce => votes' = votes]_vars

\* a vote was refused for its option while another poll has options and
\* the target poll has a vote
WitnessForeignOptionRejected ==
    /\ resp.kind = "vote" /\ resp.status = 400
    /\ resp.error = "Invalid option for this poll"
    /\ \E p \in polls, q \in polls :
          p.id # q.id /\ OptionsOf(p.id) # {} /\ VotesOf(q.id) # {}

\* C5 as stated: for a pollId that is not an existing poll the vote handler
\* answers 404 for any submitted optionId.
UnknownPollAlways404 ==
    \A pollId \in PollIds, optionId \in OptionIds \cup {Malformed} :
        ~ PollExists(pollId) => POST_vote_first(pollId, optionId, FALSE).status = 404

\* C5 amended: for a pollId that is not an existing poll and a well-formed
\* (UUID) optionId the vote handler answers 404; a vote request answered at
\* once records no vote.
UnknownPoll404 ==
    /\ [](\A pollId \in PollIds, optionId \in OptionIds :
            ~ PollExists(pollId) => POST_vote_first(pollId, optionId, FALSE).status = 404)
    /\ [][VoteAnsweredAtOnce => votes' = votes]_vars

\* a vote on a poll that does not exist was answered 404
WitnessUnknownPoll ==
    /\ resp.kind = "vote" /\ resp.status = 404
    /\ \E pollId \in PollIds : ~ PollExists(pollId)

\* C6: the insert step of a vote request adds exactly one vote row, with the
\* request's poll, option and visitor identifier, and changes no poll and
\* no option; every other step of a vote handler changes nothing in the
\* store.
CastVoteFrame ==
    [][\A r \in Reqs :
          /\ ( req[r].kind = "vote" /\ req[r].pc = "insert" /\ req'[r].pc = "results" )
             => /\ \E v \in votes' :
                     /\ v \notin votes
                     /\ votes' = votes \cup {v}
                     /\ v.poll_id = req[r].pollId
                     /\ v.option_id = req[r].optionId
                     /\ v.visitor_id = req[r].visitorId
                /\ polls' = polls /\ options' = options
          /\ ( req[r].kind = "vote" /\ Steps(r)
               /\ ~ (req[r].pc = "insert" /\ req'[r].pc = "results") )
             => /\ votes' = votes /\ polls' = polls /\ options' = options]_vars

\* a vote request was answered 200 and its row is in the table
WitnessVoteCast ==
    /\ resp.kind = "vote" /\ resp.status = 200
    /\ votes # {}

\* C7: the tally of a successful vote lists the poll's options in position
\* order, with for each option the number of vote rows recorded for it, and
\* totalVotes the number of vote rows of the poll.
TallyCountsVotes ==
    [][\A r \in Reqs :
          ( Answers(r, "vote", "results") /\ resp'.status = 200 )
          => LET opts == resp'.body.options
             IN  /\ \A i \in DOMAIN opts, j \in DOMAIN opts :
                       i < j => opts[i].position <= opts[j].position
                 /\ {opts[i].id : i \in DOMAIN opts}
                      = {o.id : o \in OptionsOf(req[r].pollId)}
                 /\ \A i \in DOMAIN opts :
                       opts[i].votes
                         = Cardinality({v \in votes : v.option_id = opts[i].id})
                 /\ resp'.body.totalVotes = Cardinality(VotesOf(req[r].pollId))]_vars

RECURSIVE SumVoteCount(_)
SumVoteCount(opts) ==
    IF opts = <<>> THEN 0 ELSE Head(opts).voteCount + SumVoteCount(Tail(opts))

\* C8: for every poll, in every body the read can answer, the per-option
\* vote counts add up to the total vote count, and every vote of the poll
\* is a vote for one of the poll's current options.
ReadCountsAddUp ==
    \A p \in polls :
        /\ \A body \in pollWithStats(p.id) :
              SumVoteCount(body.options) = body.totalVotes
        /\ \A v \in VotesOf(p.id) : \E o \in OptionsOf(p.id) : v.option_id = o.id

\* a read answered a poll with votes, after an edit or a deletion removed
\* options from the store
WitnessReadWithVotes ==
    /\ resp.kind = "get" /\ resp.status = 200
    /\ resp.body.totalVotes > 0
    /\ \E id \in {1, 2, 3, 4} : ~ \E o \in options : o.id = id

\* C9: when an edit of a poll that had votes succeeds, every body the read
\* can then answer has a total of 0, a count of 0 for every option, the
\* submitted option texts as its options, and none of the old option ids.
EditResetsPoll ==
    [][\A r \in Reqs, pollId \in PollIds :
          ( /\ Answers(r, "put", "insertOptions")
            /\ req[r].pollId = pollId
            /\ req[r].hadVotes
            /\ resp'.status = 200 )
          => \A body \in pollWithStats(pollId)' :
                /\ body.totalVotes = 0
                /\ \A i \in DOMAIN body.options : body.options[i].voteCount = 0
                /\ [i \in DOMAIN body.options |-> body.options[i].text]
                     = req[r].options
                /\ \A i \in DOMAIN body.options :
                      body.options[i].id \notin req[r].oldOptions]_vars

\* C10: a poll that has been deleted has no option row and no vote row
\* left, no row refers to a poll that does not exist, a read of it answers
\* 404, a vote on it answers 404, and a vote on it that is already in
\* flight cannot insert its row.
DeletedPollGone ==
    /\ \A o \in options : PollExists(o.poll_id)
    /\ \A v \in votes : PollExists(v.poll_id) /\ \E o \in options : o.id = v.option_id
    /\ \A id \in 1..(nextPoll - 1) :
          ~ PollExists(id)
          => /\ OptionsOf(id) = {} /\ VotesOf(id) = {}
             /\ \A user \in Sessions : GET_first(id, user, FALSE).status = 404
             /\ \A optionId \in OptionIds :
                   POST_vote_first(id, optionId, FALSE).status = 404
             /\ \A r \in Reqs :
                   req[r].kind = "vote" /\ req[r].pollId = id /\ req[r].pc = "insert"
                   => InsertVoteError(id, req[r].optionId, req[r].visitorId) # "none"

\* a deletion succeeded on a poll on which a vote request, still in flight,
\* had inserted its row
WitnessDeletedPollWithVote ==
    /\ resp.kind = "delete" /\ resp.status = 200
    /\ \E r \in Reqs :
          /\ req[r].kind = "vote" /\ req[r].pc = "results"
          /\ req[r].pollId < nextPoll /\ ~ PollExists(req[r].pollId)

\* C11 as stated: a vote row is never modified, and a step removes it only
\* by removing its poll.
VoteRemovedOnlyWithPoll ==
    [][/\ \A v \in votes : v \in votes' \/ ~ PollExists(v.poll_id)'
       /\ \A v \in votes, w \in votes' : w.id = v.id => w = v]_vars

\* C11 amended: a vote row is never modified, and a step removes it only by
\* cascade, removing its poll (poll deletion) or its option (poll edit).
VoteRemovedOnlyByCascade ==
    [][/\ \A v \in votes :
            \/ v \in votes'
            \/ ~ PollExists(v.poll_id)'
            \/ ~ \E o \in options' : o.id = v.option_id
       /\ \A v \in votes, w \in votes' : w.id = v.id => w = v]_vars

\* an edit has removed the options of a poll that had votes, the poll
\* exists, and a vote of another poll is still in the table
WitnessEditRemovedVotes ==
    \E r \in Reqs :
        /\ req[r].kind = "put" /\ req[r].pc = "insertOptions"
        /\ req[r].hadVotes
        /\ PollExists(req[r].pollId) /\ VotesOf(req[r].pollId) = {}
        /\ votes # {}

\* C12: an edit or a deletion of an existing poll by an authenticated user
\* who is not its owner is answered 403, and the step that answers 403
\* leaves polls, options and votes as they were; a step that changes a
\* poll's row (question, existence) or its options is a step of a request
\* on that poll made by the poll's owner.
OnlyOwnerChangesPoll ==
    /\ [](\A pollId \in PollIds, user \in Sessions \ {NoUser} :
            ( PollExists(pollId) /\ PollOf(pollId).user_id # user )
            => /\ ownerCheck(pollId, user, FALSE).status = 403
               /\ \A question \in Questions, opts \in OptionLists :
                     PUT_first(pollId, user, question, opts, FALSE).status = 403)
    /\ [][( issued' = issued + 1 /\ req' = req /\ resp'.status = 403 )
            => polls' = polls /\ options' = options /\ votes' = votes]_vars
    /\ [][\A p \in polls :
            ( p \notin polls' \/ OptionsOf(p.id)' # OptionsOf(p.id) )
            => \E r \in Reqs :
                  /\ Steps(r)
                  /\ req[r].pollId = p.id /\ req[r].user = p.user_id]_vars

\* a user was refused with 403 on a poll of another user that has options,
\* while a poll of that user has been changed by an earlier request
WitnessForbidden ==
    /\ resp.kind \in {"put", "delete"} /\ resp.status = 403
    /\ \E p \in polls : p.user_id \notin Sessions /\ OptionsOf(p.id) # {}
    /\ polls # SeedPolls

\* C13: a vote request that carries an authenticated session is checked for
\* duplicates and recorded under the identifier of that user.
SessionUserIsVisitor ==
    \A r \in Reqs :
        req[r].kind = "vote" /\ req[r].user # NoUser
        => req[r].visitorId = req[r].user

\* C14: a vote request without header that presents the visitor_id cookie
\* an earlier response set to a synthesized identifier, on a poll that holds a vote recorded under that
\* identifier, is resolved to that identifier and rejected as a duplicate
\* (409) by the duplicate check.
CookieVoterRejected ==
    [][\A r \in Reqs :
          ( /\ req[r].kind = "vote" /\ req[r].pc = "existingVote"
            /\ Steps(r)
            /\ req[r].user = NoUser
            /\ req[r].cookie # NoHeader /\ req[r].cookie \notin Visitors
            /\ UniqueViolation(req[r].pollId, req[r].cookie) )
          => /\ req[r].visitorId = req[r].cookie
             /\ req'[r] = Idle
             /\ resp'.kind = "vote" /\ resp'.status = 409]_vars

\* C15: for a total t > 0 the percentage displayed for an option with v
\* votes is the integer nearest to 100 * v / t, an exact half going up
\* (the floor of (200 * v + t) / (2 * t)).
PercentageIsNearest ==
    ( page.shown \in {"results", "winner"} /\ page.totalVotes > 0 )
    => \A i \in DOMAIN page.options :
          page.percentages[i]
            = (2 * Hundred * page.options[i].votes + page.totalVotes)
                \div (2 * page.totalVotes)

\* C16: for a tally whose total is 0 the results view computes a percentage
\* for every option, and every percentage is 0.
ZeroTotalZeroPercent ==
    ( page.shown \in {"results", "winner"} /\ page.totalVotes = 0 )
    => /\ DOMAIN page.percentages = DOMAIN page.options
       /\ \A i \in DOMAIN page.options : page.percentages[i] = 0

\* the results of a tally of three options without votes are displayed
WitnessZeroTally ==
    /\ page.shown = "results"
    /\ page.totalVotes = 0
    /\ Len(page.options) = 3 /\ Len(page.percentages) = 3

\* C17: the winner of a non-empty option list is the first option of the
\* list among those with the greatest number of votes.
WinnerIsFirstGreatest ==
    page.shown = "winner"
    => \E i \in DOMAIN page.options :
          /\ page.winner = page.options[i].id
          /\ \A j \in DOMAIN page.options :
                /\ page.options[j].votes <= page.options[i].votes
                /\ j < i => page.options[j].votes < page.options[i].votes

\* a body within the limits the specification gives for creation and edit
ValidBody(question, opts) ==
    /\ question.len >= 5 /\ question.len <= 200
    /\ Len(opts) >= 2 /\ Len(opts) <= 10
    /\ \A i \in DOMAIN opts : opts[i].len >= 1 /\ opts[i].len <= 100

\* C18: a creation request goes on to its writes exactly when its caller is
\* authenticated and its question has 5 to 200 characters, it has 2 to 10
\* options and every option text has 1 to 100 characters; an edit request
\* of the owner of the poll goes on exactly when its body is within the
\* same limits; the other requests are answered 401 (no session) or 400
\* (body), and a step that answers 400 or 401 leaves polls and options as
\* they were and the request is over.
BodyAcceptedExactly ==
    /\ [][\A r \in Reqs, user \in Sessions, question \in BoundaryQuestions,
             opts \in BoundaryOptionLists :
            /\ POST_polls_begin(r, user, question, opts, FALSE)
                  => /\ req'[r].kind = "create"
                          <=> (user # NoUser /\ ValidBody(question, opts))
                     /\ req'[r].kind # "create"
                          => /\ req'[r] = Idle
                             /\ resp'.status = IF user = NoUser THEN 401 ELSE 400
            /\ \A pollId \in PollIds :
                  ( PUT_begin(r, pollId, user, question, opts, FALSE)
                    /\ OwnsPoll(user, pollId) )
                  => /\ req'[r].kind = "put" <=> ValidBody(question, opts)
                     /\ req'[r].kind # "put"
                          => req'[r] = Idle /\ resp'.status = 400]_vars
    /\ [][( issued' = issued + 1 /\ req' = req /\ resp'.status \in {400, 401} )
            => polls' = polls /\ options' = options]_vars
    /\ [][resp' # resp /\ resp'.status \in {400, 401}
            => issued' = issued + 1 /\ req' = req]_vars

\* a poll was created with a question of 5 characters and 10 options, and a
\* later creation or edit was answered 400
WitnessBodyRejected ==
    /\ resp.kind \in {"create", "put"} /\ resp.status = 400
    /\ \E p \in polls :
          /\ p \notin SeedPolls
          /\ p.question.len = 5
          /\ Cardinality(OptionsOf(p.id)) = 10

\* C19: a read of an existing poll, whoever the caller is, is answered 200
\* with the poll's options, each once, in ascending order of position, each
\* with a vote count equal to the number of vote rows of the poll for that
\* option.
ReadIsPublicAndSorted ==
    [][\A r \in Reqs, pollId \in PollIds, user \in Sessions :
          ( GET(r, pollId, user, FALSE) /\ PollExists(pollId) )
          => /\ resp'.kind = "get" /\ resp'.status = 200
             /\ resp'.body.id = pollId
             /\ Len(resp'.body.options) = Cardinality(OptionsOf(pollId))
             /\ \A o \in OptionsOf(pollId) :
                   \E i \in DOMAIN resp'.body.options :
                      resp'.body.options[i].id = o.id
             /\ \A i, j \in DOMAIN resp'.body.options :
                   i < j => resp'.body.options[i].position
                              <= resp'.body.options[j].position
             /\ \A i \in DOMAIN resp'.body.options :
                   resp'.body.options[i].voteCount
                     = Cardinality({v \in votes :
                                      /\ v.poll_id = pollId
                                      /\ v.option_id = resp'.body.options[i].id})]_vars

\* a read answered a poll of two options with a vote for the second of them
WitnessReadSorted ==
    /\ resp.kind = "get" /\ resp.status = 200
    /\ Len(resp.body.options) = 2
    /\ resp.body.options[1].position < resp.body.options[2].position
    /\ resp.body.options[1].voteCount = 0
    /\ resp.body.options[2].voteCount = 1

\* C20: no two option rows of the same poll have the same position.
PositionsUnique ==
    \A o1 \in options, o2 \in options :
        ( o1.poll_id = o2.poll_id /\ o1.position = o2.position ) => o1 = o2

\* C21: in every state, every body a read can answer for a poll of the
\* store lists at least one option (no poll is observable without options).
PollHasOptions ==
    \A p \in polls : \A body \in pollWithStats(p.id) : body.options # <<>>

\* the handler of slot r answers 500 by this step
Answers500(r) == req'[r] = Idle /\ resp'.status = 500

\* C22: a step of a handler whose store operation fails answers the request
\* with status 500 (for the options insert of a creation: goes on to the
\* clean-up, which answers 500); the handler never answers another status
\* and never goes on as if the operation had returned nothing.
StoreFailureIs500 ==
    [][\A r \in Reqs :
          /\ \A pollId \in PollIds, optionId \in OptionIds, caller \in VoteCallers,
                withCookie \in BOOLEAN :
                POST_vote_begin(r, pollId, optionId, caller, withCookie, TRUE)
                  => Answers500(r)
          /\ POST_vote_existingVote(r, TRUE) => Answers500(r)
          /\ POST_vote_insert(r, TRUE) => Answers500(r)
          /\ POST_vote_results(r, TRUE) => Answers500(r)
          /\ \A pollId \in PollIds, user \in Sessions :
                GET(r, pollId, user, TRUE) => Answers500(r)
          /\ \A pollId \in PollIds, user \in Sessions \ {NoUser},
                question \in Questions, opts \in OptionLists :
                PUT_begin(r, pollId, user, question, opts, TRUE) => Answers500(r)
          /\ PUT_updateQuestion(r, TRUE) => Answers500(r)
          /\ PUT_deleteOptions(r, TRUE) => Answers500(r)
          /\ PUT_insertOptions(r, TRUE) => Answers500(r)
          /\ \A pollId \in PollIds, user \in Sessions \ {NoUser} :
                DELETE_begin(r, pollId, user, TRUE) => Answers500(r)
          /\ DELETE_deletePoll(r, TRUE) => Answers500(r)
          /\ \A user \in Sessions \ {NoUser}, question \in Questions,
                opts \in OptionLists :
                ( POST_polls_begin(r, user, question, opts, TRUE)
                  /\ createPollSchema(question, opts) )
                => Answers500(r)
          /\ POST_polls_insertOptions(r, TRUE)
                => req'[r].pc = "cleanup" \/ Answers500(r)
          /\ POST_polls_cleanup(r, TRUE) => Answers500(r)]_vars

\* the vote rows without their identifiers
VoteFacts(V) ==
    {[poll_id |-> v.poll_id, option_id |-> v.option_id,
      visitor_id |-> v.visitor_id] : v \in V}

\* the visitor holds a vote on the poll
HasVoted(pollId, visitorId) ==
    \E v \in votes : v.poll_id = pollId /\ v.visitor_id = visitorId

\* C23: a vote in flight whose poll and option still exist and whose visitor
\* has no vote on the poll succeeds whatever votes other visitors hold or
\* cast on the poll: its duplicate check passes, its insert adds exactly its
\* own row (poll, option, visitor) and leaves every other row, and its
\* tally step answers 200; so two interleaved casts by different visitors
\* both succeed and leave the same rows in either order of their inserts.
VotesDoNotInterfere ==
    [][\A r \in Reqs :
          ( /\ req[r].kind = "vote" /\ Steps(r)
            /\ PollExists(req[r].pollId)
            /\ validOption(req[r].pollId, req[r].optionId) )
          => /\ ( req[r].pc = "existingVote"
                  /\ ~ HasVoted(req[r].pollId, req[r].visitorId) )
                => req'[r].pc = "insert" /\ votes' = votes
             /\ ( req[r].pc = "insert"
                  /\ ~ HasVoted(req[r].pollId, req[r].visitorId) )
                => /\ req'[r].pc = "results"
                   /\ VoteFacts(votes')
                        = VoteFacts(votes)
                            \cup {[poll_id |-> req[r].pollId,
                                    option_id |-> req[r].optionId,
                                    visitor_id |-> req[r].visitorId]}
                   /\ Cardinality(votes') = Cardinality(votes) + 1
             /\ req[r].pc = "results"
                => /\ resp'.kind = "vote" /\ resp'.status = 200
                   /\ votes' = votes]_vars

\* two votes of different visitors on the same poll are in flight, both
\* past their insert, and the store holds the rows of both
WitnessBothVotesCast ==
    /\ req[1].kind = "vote" /\ req[2].kind = "vote"
    /\ req[1].pc = "results" /\ req[2].pc = "results"
    /\ req[1].pollId = req[2].pollId
    /\ req[1].visitorId # req[2].visitorId
    /\ \A r \in Reqs :
          \E v \in votes : /\ v.poll_id = req[r].pollId
                           /\ v.option_id = req[r].optionId
                           /\ v.visitor_id = req[r].visitorId

\* C24: the step that accepts a vote request answers 400 for a malformed
\* optionId, else 404 for a poll that does not exist, else 400 for an option
\* that is not one of the poll, and else goes on to the duplicate check;
\* the duplicate check answers 409 when the visitor holds a vote on the
\* poll and else goes on to the insert; a vote row is added only by the
\* insert step of a request that went through these checks.
VoteChecksInOrder ==
    /\ [][\A r \in Reqs, pollId \in PollIds,
             optionId \in OptionIds \cup {Malformed}, caller \in VoteCallers,
             withCookie \in BOOLEAN :
            POST_vote_begin(r, pollId, optionId, caller, withCookie, FALSE)
            => IF optionId = Malformed
               THEN req'[r] = Idle /\ resp'.status = 400
                    /\ resp'.error = "Invalid request data"
               ELSE IF ~ \E p \in polls : p.id = pollId
               THEN req'[r] = Idle /\ resp'.status = 404
               ELSE IF ~ \E o \in options : o.id = optionId /\ o.poll_id = pollId
               THEN req'[r] = Idle /\ resp'.status = 400
                    /\ resp'.error = "Invalid option for this poll"
               ELSE req'[r].pc = "existingVote"]_vars
    /\ [][\A r \in Reqs :
            ( req[r].kind = "vote" /\ req[r].pc = "existingVote" /\ Steps(r) )
            => IF HasVoted(req[r].pollId, req[r].visitorId)
               THEN req'[r] = Idle /\ resp'.status = 409
               ELSE req'[r].pc = "insert"]_vars
    /\ [][\A r \in Reqs :
            req'[r].pc = "insert" => req[r].pc \in {"insert", "existingVote"}]_vars
    /\ [][(\E v \in votes' : v \notin votes)
            => \E r \in Reqs : /\ req[r].kind = "vote" /\ req[r].pc = "insert"
                               /\ Steps(r)]_vars

\* a vote with a malformed optionId was answered 400 while the store never
\* held a poll
WitnessMalformedUnknownPoll ==
    /\ resp.kind = "vote" /\ resp.status = 400
    /\ resp.error = "Invalid request data"
    /\ polls = {} /\ nextPoll = 1

\* the answer the claimed order of checks gives to an edit or a deletion
ChecksInOrder(pollId, user) ==
    IF user = NoUser THEN 401
    ELSE IF ~ \E p \in polls : p.id = pollId THEN 404
    ELSE IF ~ \E p \in polls : p.id = pollId /\ p.user_id = user THEN 403
    ELSE 0

\* C25: the step that accepts an edit or a deletion answers 401 without a
\* session, else 404 for a poll that does not exist, else 403 for a caller
\* who is not the owner, else (edit) 400 for a body outside the limits, and
\* else goes on to the first write; the accepting step itself changes no
\* poll, option or vote.
EditChecksInOrder ==
    [][\A r \in Reqs, pollId \in PollIds, user \in Sessions :
          /\ \A question \in Questions, opts \in OptionLists :
                PUT_begin(r, pollId, user, question, opts, FALSE)
                => /\ IF ChecksInOrder(pollId, user) # 0
                      THEN req'[r] = Idle
                           /\ resp'.status = ChecksInOrder(pollId, user)
                      ELSE IF ~ ValidBody(question, opts)
                      THEN req'[r] = Idle /\ resp'.status = 400
                      ELSE req'[r].pc = "updateQuestion"
                   /\ polls' = polls /\ options' = options /\ votes' = votes
          /\ DELETE_begin(r, pollId, user, FALSE)
                => /\ IF ChecksInOrder(pollId, user) # 0
                      THEN req'[r] = Idle
                           /\ resp'.status = ChecksInOrder(pollId, user)
                      ELSE req'[r].pc = "deletePoll"
                   /\ polls' = polls /\ options' = options /\ votes' = votes]_vars

\* an edit or a deletion of a poll that does not exist was answered 404
\* while a poll of another user exists
WitnessEditUnknownPoll ==
    /\ resp.kind \in {"put", "delete"} /\ resp.status = 404
    /\ \E pollId \in PollIds : ~ PollExists(pollId)
    /\ \E p \in polls : p.user_id \notin Sessions

\* C26: an edit writes in the order question update, options delete,
\* options insert, each as a step of its own; a step whose store operation
\* fails answers 500, ends the request and changes nothing, the earlier
\* writes staying as they are.  When the edit is the only request so far
\* and its insert fails, the poll is left with the submitted question, no
\* options and no votes.
EditStopsAtFirstFailure ==
    [][\A r \in Reqs :
          ( req[r].kind = "put" /\ Steps(r) )
          => /\ req[r].pc = "updateQuestion"
                => /\ options' = options /\ votes' = votes
                   /\ req'[r] = Idle \/ req'[r].pc = "deleteOptions"
             /\ req[r].pc = "deleteOptions"
                => /\ polls' = polls
                   /\ req'[r] = Idle \/ req'[r].pc = "insertOptions"
             /\ req[r].pc = "insertOptions"
                => polls' = polls /\ votes' = votes /\ req'[r] = Idle
             /\ \A pc \in {"updateQuestion", "deleteOptions", "insertOptions"} :
                   ( \/ pc = "updateQuestion" /\ PUT_updateQuestion(r, TRUE)
                     \/ pc = "deleteOptions" /\ PUT_deleteOptions(r, TRUE)
                     \/ pc = "insertOptions" /\ PUT_insertOptions(r, TRUE) )
                   => /\ req'[r] = Idle /\ resp'.status = 500
                      /\ polls' = polls /\ options' = options /\ votes' = votes
                      /\ ( pc = "insertOptions" /\ issued = 1 )
                           => \E p \in polls' :
                                 /\ p.id = req[r].pollId
                                 /\ p.question = req[r].question
                                 /\ OptionsOf(p.id)' = {}
                                 /\ VotesOf(p.id)' = {}]_vars

\* the only request so far, an edit, failed at its options insert: the poll
\* has its new question and no options, and the store holds no vote
WitnessEditFailedAtInsert ==
    /\ issued = 1
    /\ resp.kind = "put" /\ resp.status = 500
    /\ resp.error = "Failed to create poll options"
    /\ \E p \in polls : OptionsOf(p.id) = {} /\ p \notin SeedPolls
    /\ votes = {}

\* C27: when the options insert of a creation fails, the handler changes
\* nothing in that step and goes on to delete the poll row it inserted; the
\* delete step answers 500, and when the delete itself does not fail the
\* poll row and every option of the poll are gone.  When the options
\* insert succeeds the request is answered 201 and the poll has gained
\* exactly one option per submitted text, the i-th text at position i - 1.
CreationCleansUp ==
    [][\A r \in Reqs :
          /\ POST_polls_insertOptions(r, TRUE)
                => /\ req'[r].pc = "cleanup"
                   /\ polls' = polls /\ options' = options /\ votes' = votes
          /\ ( req[r].kind = "create" /\ req[r].pc = "cleanup" /\ Steps(r) )
                => req'[r] = Idle /\ resp'.status = 500
          /\ POST_polls_cleanup(r, FALSE)
                => /\ \A p \in polls' : p.id # req[r].pollId
                   /\ \A o \in options' : o.poll_id # req[r].pollId
          /\ ( req[r].kind = "create" /\ req[r].pc = "insertOptions"
               /\ req'[r] = Idle )
                => /\ resp'.status = 201
                   /\ polls' = polls
                   /\ options \subseteq options'
                   /\ Cardinality(options' \ options) = Len(req[r].options)
                   /\ \A i \in DOMAIN req[r].options :
                         \E o \in options' \ options :
                            /\ o.poll_id = req[r].pollId
                            /\ o.text = req[r].options[i]
                            /\ o.position = i - 1]_vars

\* the only request so far, a creation, failed at its options insert and
\* was answered 500: the poll row it had inserted is gone
WitnessCreationCleanedUp ==
    /\ issued = 1
    /\ resp.kind = "create" /\ resp.status = 500
    /\ resp.error = "Failed to create poll options"
    /\ nextPoll > 1 /\ ~ PollExists(nextPoll - 1)

\* C28: every vote row names an option that exists and whose poll is the
\* poll of the vote; the insert step of a vote whose option is no longer
\* one of its poll answers an error and adds no row.
VoteOptionInPoll ==
    /\ [](\A v \in votes :
            \E o \in options : o.id = v.option_id /\ o.poll_id = v.poll_id)
    /\ [][\A r \in Reqs :
            ( /\ req[r].kind = "vote" /\ req[r].pc = "insert" /\ Steps(r)
              /\ ~ \E o \in options : /\ o.id = req[r].optionId
                                       /\ o.poll_id = req[r].pollId )
            => /\ votes' = votes
               /\ req'[r] = Idle /\ resp'.status = 500]_vars

\* a vote passed its option check, an edit or a deletion then removed the
\* option, and the insert of the vote was refused by the foreign key
WitnessVoteAfterEdit ==
    /\ resp.kind = "vote" /\ resp.status = 500 /\ resp.storeError = "fk"
    /\ issued = 2

\* C29: the options delete of an edit made by the owner leaves no vote row
\* of the poll, whoever cast it; and a vote on a poll by a visitor who
\* holds no vote row on it is not answered 409: its duplicate check goes
\* on to the insert, and the insert is not refused by the uniqueness
\* constraint.
EditResetsDeduplication ==
    /\ [][\A r \in Reqs :
            ( /\ req[r].kind = "put" /\ req[r].pc = "deleteOptions"
              /\ req'[r].pc = "insertOptions"
              /\ OwnsPoll(req[r].user, req[r].pollId) )
            => \A v \in votes' : v.poll_id # req[r].pollId]_vars
    /\ [][\A r \in Reqs :
            ( /\ req[r].kind = "vote" /\ Steps(r)
              /\ req[r].pc \in {"existingVote", "insert"}
              /\ ~ HasVoted(req[r].pollId, req[r].visitorId) )
            => /\ ~ (req'[r] = Idle /\ resp'.status = 409)
               /\ ~ (req'[r] = Idle /\ resp'.storeError = "unique")]_vars

\* after an edit of the first poll (new question, new options) the visitor
\* of the seeded vote voted for one of the new options and was answered 200
WitnessVotedAgainAfterEdit ==
    /\ issued = 2
    /\ resp.kind = "vote" /\ resp.status = 200
    /\ \E p \in polls : p.id = 1 /\ p \notin SeedPolls
    /\ \E v \in votes :
          /\ v.poll_id = 1 /\ v.visitor_id \in {w.visitor_id : w \in SeedVotes}
          /\ \A o \in SeedOptions : o.id # v.option_id

\* C30: when the re-read of the tally fails, the vote handler answers 500
\* and leaves the vote rows as they are, the row it inserted included; the
\* duplicate check of a later vote by a visitor who holds a row on the poll
\* answers 409; and every vote response with status 400, 404 or 409 comes
\* from the accepting step or the duplicate check, which are before the
\* insert and change no vote row.
FailedTallyKeepsVote ==
    /\ [][\A r \in Reqs :
            POST_vote_results(r, TRUE)
            => /\ req'[r] = Idle /\ resp'.status = 500
               /\ resp'.error = "Vote cast but failed to fetch results"
               /\ votes' = votes]_vars
    /\ [][\A r \in Reqs :
            ( POST_vote_existingVote(r, FALSE)
              /\ HasVoted(req[r].pollId, req[r].visitorId) )
            => req'[r] = Idle /\ resp'.status = 409]_vars
    /\ [][\A r \in Reqs :
            ( /\ req[r].kind = "vote" /\ req'[r] = Idle
              /\ resp'.status \in {400, 404, 409} )
            => req[r].pc = "existingVote" /\ votes' = votes]_vars
    /\ [][( /\ issued' = issued + 1 /\ req' = req
            /\ resp'.kind = "vote" )
            => resp'.status \in {400, 404} /\ votes' = votes]_vars

\* the only request so far, a vote, was answered 500 after its insert: the
\* store holds the row it inserted
WitnessVoteKeptAfter500 ==
    /\ issued = 1
    /\ resp.kind = "vote" /\ resp.status = 500
    /\ resp.error = "Vote cast but failed to fetch results"
    /\ \E v \in votes : v \notin SeedVotes

=============================================================================
